---- MODULE Spec2Model ----
(***************************************************************************)
(* The response cache in front of the GraphQL endpoint: the Express        *)
(* pipeline                                                                *)
(*   getFromCacheIfAny -> graphqlExpress -> storeInCache                   *)
(*                     -> extensionsFilter -> graphqlResponseHandler       *)
(* over an lru-cache store.  The repository holds two builds of it:        *)
(*   "store"     src/unnamed/part_000 + part_001: the store is an injected *)
(*               KeyValueCache (createLRUCache), get and set are awaited;  *)
(*   "functions" src/functions/src: a module-level lru-cache, every        *)
(*               middleware synchronous.                                   *)
(* JavaScript values are records tagged with their type, strings are       *)
(* sequences of characters, times are milliseconds.                        *)
(***************************************************************************)
EXTENDS Integers, Sequences, FiniteSets, TLC

\* ------------------------------------------------------------------ bounds
\* Requests handled in one behaviour, and clock advances in one behaviour.
MaxReq == 2
MaxTicks == 2

Req == 1..MaxReq
\* The amounts the clock advances by (ms).
TickSteps == {500, 60000}
Builds == {"store", "functions"}

\* -------------------------------------------------------- JavaScript values
JsUndefined == [type |-> "undefined"]
JsString(s) == [type |-> "string", chars |-> s]
\* `${v}` inside a template literal.
TemplateText(v) ==
  IF v.type = "undefined" THEN <<"u", "n", "d", "e", "f", "i", "n", "e", "d">>
  ELSE v.chars
\* if (v) for a string or undefined.
Truthy(v) == v.type # "undefined" /\ (v.type = "string" => Len(v.chars) > 0)

\* ------------------------------------------------------------ request input
Whitespace == {" ", "\n", "\t"}
\* data.query: absent, empty, a query text, the same text without whitespace.
NoQuery == JsUndefined
EmptyQuery == JsString(<<>>)
QueryText == JsString(<<"a", " ", "b">>)
QueryTextPacked == JsString(<<"a", "b">>)
\* Another query text, and data.variables: absent or an object.
OtherQuery == JsString(<<"c">>)
NoVariables == JsUndefined
VariablesOf(n) == [type |-> "object", id |-> n]

\* data.extensions is absent or a text; JSON.parse of the text throws
\* (json = FALSE) or yields an object whose persistedQuery member is absent
\* or an object whose version and sha256Hash are strings or absent.
ExtText(pq) == [type |-> "string", json |-> TRUE, persistedQuery |-> pq]
Descriptor(v, h) == [type |-> "object", version |-> v, sha256Hash |-> h]
ExtNotJson == [type |-> "string", json |-> FALSE, persistedQuery |-> JsUndefined]
ExtValid == ExtText(Descriptor(JsString(<<"1">>), JsString(<<"a", "b", "c">>)))
ExtNoPersistedQuery == ExtText(JsUndefined)
ExtMissingHash == ExtText(Descriptor(JsString(<<"1">>), JsUndefined))
ExtMissingVersion == ExtText(Descriptor(JsUndefined, JsString(<<"a", "b", "c">>)))
NoExtensions == JsUndefined

\* The requests a client sends: [method, query, extensions, variables].
RequestInput(m, q, e) ==
  [method |-> m, query |-> q, extensions |-> e, variables |-> NoVariables]
WithVariables(in, v) == [in EXCEPT !.variables = v]
RequestInputs ==
  { RequestInput("POST", QueryText, NoExtensions),
    WithVariables(RequestInput("POST", QueryText, NoExtensions), VariablesOf(1)),
    RequestInput("POST", OtherQuery, NoExtensions),
    RequestInput("POST", QueryTextPacked, NoExtensions),
    RequestInput("POST", EmptyQuery, NoExtensions),
    RequestInput("POST", NoQuery, ExtValid),
    RequestInput("POST", QueryText, ExtNotJson),
    RequestInput("GET", NoQuery, ExtValid),
    RequestInput("GET", QueryText, ExtValid),
    RequestInput("GET", QueryText, NoExtensions),
    RequestInput("GET", NoQuery, ExtNotJson),
    RequestInput("GET", NoQuery, ExtNoPersistedQuery),
    RequestInput("GET", NoQuery, ExtMissingHash),
    RequestInput("GET", QueryText, ExtMissingVersion) }

\* ---------------------------------------------------------- pure functions
\* isPersistedQuery: JSON.parse(data.extensions) throws on a text that is
\* not JSON.
isPersistedQueryThrows(data) ==
  data.extensions.type = "string" /\ ~data.extensions.json

\* isPersistedQuery: payload.persistedQuery when extensions is present
\* (undefined when the member is absent), else null; null and undefined are
\* both falsy and are one value here.
isPersistedQuery(data) ==
  IF data.extensions.type = "string" THEN data.extensions.persistedQuery
  ELSE JsUndefined

\* The hex digest of a message: SHA-256 is taken to be collision free, so
\* the digest stands for the message it was computed from.  A digest is 64
\* hex digits and never contains ".": it differs from every descriptor key.
Sha256Hex(msg) == [digest |-> TRUE, text |-> msg]

\* query.replace(/\s+/g, '')
StripWhitespace(s) == SelectSeq(s, LAMBDA c : c \notin Whitespace)

\* hashPostBody of the "store" build: the digest of the query text with all
\* whitespace removed.
hashPostBody(query) == Sha256Hex(StripWhitespace(query.chars))

\* hashPostBody of the "functions" build is handed the whole body object;
\* hash.js turns a message that is neither a string nor an array into the
\* bytes msg[0..msg.length-1], which for a plain object is no byte at all.
hashPostBodyFn(data) == Sha256Hex(<<>>)

\* extractCacheKey / getCacheKey: `${query.version}.${query.sha256Hash}`
extractCacheKey(pQuery) ==
  [digest |-> FALSE,
   text |-> TemplateText(pQuery.version) \o <<".">> \o TemplateText(pQuery.sha256Hash)]

\* removeExtensions: parse, delete cachedValue.extensions, stringify.
removeExtensions(obj) == [k \in DOMAIN obj \ {"extensions"} |-> obj[k]]

\* ------------------------------------------------------------------- state
VARIABLES
  build,   \* which of the two builds runs
  now,     \* Date.now()
  ticks,   \* clock advances so far
  cache,   \* the lru-cache: key -> [value, now, maxAge]
  reqs     \* per request: its req/res objects and its place in the pipeline

vars == <<build, now, ticks, cache, reqs>>

\* ------------------------------------------------------------- the lru-cache
\* lru-cache isStale: an entry set with a maxAge is stale once it is older
\* than maxAge; an entry set without one (maxAge 0) never is.
isStale(hit, t) == hit.maxAge # 0 /\ t - hit.now > hit.maxAge

\* lru-cache has(key): present and not stale; removes nothing.
LruHas(c, key, t) == key \in DOMAIN c /\ ~isStale(c[key], t)

\* lru-cache get(key): the value, or undefined when absent or stale.
LruGet(c, key, t) == IF LruHas(c, key, t) THEN c[key].value ELSE JsUndefined

\* lru-cache get(key) deletes the entry it finds stale.
LruAfterGet(c, key, t) ==
  IF key \in DOMAIN c /\ isStale(c[key], t)
  THEN [k \in DOMAIN c \ {key} |-> c[k]]
  ELSE c

\* LruSet that leaves an entry that is still live in place.
LruSetKeepsLive(c, key, value, maxAge, t) ==
  IF LruHas(c, key, t) THEN c
  ELSE [k \in DOMAIN c \cup {key} |->
          IF k = key
          THEN [value |-> value, now |-> IF maxAge # 0 THEN t ELSE 0, maxAge |-> maxAge]
          ELSE c[k]]

\* lru-cache set(key, value, maxAge): maxAge = maxAge || 0 and
\* now = maxAge ? Date.now() : 0.  The size bound of the cache (50,000,000
\* characters, 150 entries in the "functions" build) is far above what the
\* requests of one behaviour store, so trim() evicts nothing.
LruSet(c, key, value, maxAge, t) ==
  [k \in DOMAIN c \cup {key} |->
     IF k = key
     THEN [value |-> value, now |-> IF maxAge # 0 THEN t ELSE 0, maxAge |-> maxAge]
     ELSE c[k]]

\* createLRUCache().set: if (maxAge) cache.set(key, value, maxAge)
\* else cache.set(key, value).
KeyValueCacheSet(c, key, value, maxAge, t) ==
  IF maxAge # 0 THEN LruSet(c, key, value, maxAge, t)
  ELSE LruSet(c, key, value, 0, t)

\* --------------------------------------------------------- request, response
NewResponse ==
  [xCache |-> "none", cacheControl |-> JsUndefined, contentType |-> "none",
   headers |-> {}, statusCode |-> 200, body |-> JsUndefined, ended |-> 0]

\* A request not yet received.  The members from engine on record what
\* happened to the request and are read by no handler: the calls of
\* runHttpQuery, the way getFromCacheIfAny ended, the promise that rejected
\* unhandled, what the engine answered, when the request arrived and which
\* requests were finished by then.
IdleRequest ==
  [pc |-> "idle", method |-> "GET", query |-> JsUndefined,
   extensions |-> JsUndefined, variables |-> JsUndefined, value |-> JsUndefined,
   gqlResponse |-> JsUndefined, res |-> NewResponse, engine |-> 0,
   gate |-> "none", fault |-> "none", out |-> JsUndefined, arrived |-> 0,
   prior |-> {}]

\* data = req.method === 'POST' ? req.body : req.query
Data(rq) ==
  [query |-> rq.query, extensions |-> rq.extensions, variables |-> rq.variables]

PersistedQueryNotFound == [errors |-> <<[message |-> "PersistedQueryNotFound"]>>]

\* sendContent of the "store" build: X-Cache, Content-Type, (Content-Length),
\* write, end.
sendContent(res, value, cacheHit) ==
  [res EXCEPT !.xCache = IF cacheHit THEN "HIT" ELSE "MISS",
              !.contentType = "application/json",
              !.body = value,
              !.ended = @ + 1]

\* sendContent of the "functions" build sets no X-Cache header.
sendContentFn(res, value) ==
  [res EXCEPT !.contentType = "application/json", !.body = value, !.ended = @ + 1]

\* durationLeft with Math.floor in place of Math.round.
durationLeftFloor(duration, at, t) == (duration - (t - at)) \div 1000

\* Math.round(duration / 1000 - (Date.now() - at) / 1000): Math.round rounds
\* a half up, towards +infinity.
durationLeft(duration, at, t) == ((duration - (t - at)) + 500) \div 1000

\* graphqlHandler: runHttpQuery is called; its promise is pending.
graphqlHandler(rq) == [rq EXCEPT !.pc = "engine", !.engine = @ + 1]

\* 'Cache-Control': `public, max-age=${durationLeft}, s-maxage=${durationLeft}`
CacheControlHeader(left) ==
  [type |-> "public", maxAge |-> left, sMaxAge |-> left]

\* ------------------------------------------------- getFromCacheIfAny ("store")
\* Each handler below maps the request and the cache to the request and the
\* cache it leaves: [rq |-> ..., cache |-> ...].

\* gateMiss without the not-found branch: every miss goes to the engine.
gateMissAlwaysNext(rq) == graphqlHandler([rq EXCEPT !.gate = "pass"])

\* Lines 130-138: the not-found answer for a GET with a descriptor and no
\* query, else next() into graphqlHandler.
gateMiss(rq) ==
  LET data == Data(rq)
      pQuery == isPersistedQuery(data)
  IN IF rq.method = "GET" /\ Truthy(pQuery) /\ ~Truthy(data.query)
     THEN [rq EXCEPT !.res = sendContent(@, PersistedQueryNotFound, FALSE),
                     !.pc = "done", !.gate = "notfound"]
     ELSE graphqlHandler([rq EXCEPT !.gate = "pass"])

\* The key getFromCacheIfAny looks up, for a request it looks up at all.
gateLooksUp(rq) ==
  \/ rq.method = "POST" /\ Truthy(rq.query)
  \/ rq.method = "GET" /\ Truthy(isPersistedQuery(Data(rq)))

\* gateKey hashing the query text as sent, whitespace included.
gateKeyRaw(rq) ==
  IF rq.method = "POST" THEN Sha256Hex(rq.query.chars)
  ELSE extractCacheKey(isPersistedQuery(Data(rq)))

gateKey(rq) ==
  IF rq.method = "POST" THEN hashPostBody(rq.query)
  ELSE extractCacheKey(isPersistedQuery(Data(rq)))

\* getFromCacheIfAny up to its await: isPersistedQuery may throw, which
\* rejects the promise of the async middleware; Express 4 ignores that
\* promise, so nothing is ever written to the response.  store.get runs
\* cache.get at once; the code after the await runs in GetResolved.
getFromCacheIfAny(rq, c, t) ==
  IF isPersistedQueryThrows(Data(rq))
  THEN [rq |-> [rq EXCEPT !.pc = "hung", !.fault = "parse"], cache |-> c]
  ELSE IF gateLooksUp(rq)
  THEN [rq |-> [rq EXCEPT !.pc = "gateGet", !.value = LruGet(c, gateKey(rq), t)],
        cache |-> LruAfterGet(c, gateKey(rq), t)]
  ELSE [rq |-> gateMiss(rq), cache |-> c]

\* gateResume without the return after sendContent: a hit goes on to next().
gateResumeNoReturn(rq, t) ==
  IF rq.value.type # "undefined"
  THEN graphqlHandler(
         [rq EXCEPT !.res = sendContent(@, rq.value.payload, TRUE), !.gate = "hit"])
  ELSE gateMiss(rq)

\* getFromCacheIfAny after its await (lines 104-138).
gateResume(rq, t) ==
  IF rq.value.type # "undefined"
  THEN IF rq.method = "POST"
       THEN [rq EXCEPT !.res = sendContent(@, rq.value.payload, TRUE),
                       !.pc = "done", !.gate = "hit"]
       ELSE [rq EXCEPT
               !.res = sendContent(
                  [@ EXCEPT !.cacheControl = CacheControlHeader(
                     durationLeft(rq.value.duration, rq.value.at, t))],
                  rq.value.payload, TRUE),
               !.pc = "done", !.gate = "hit"]
  ELSE gateMiss(rq)

\* ---------------------------------------------------- after the engine call
\* extensionsFilter: res.gqlResponse = removeExtensions(res.gqlResponse)
extensionsFilter(rq) == [rq EXCEPT !.gqlResponse = removeExtensions(@)]

\* graphqlResponseHandler of the "store" build: sendContent(res, gqlResponse)
graphqlResponseHandler(rq) ==
  [rq EXCEPT !.res = sendContent(@, rq.gqlResponse, FALSE), !.pc = "done"]

\* graphqlResponseHandler of the "functions" build.
graphqlResponseHandlerFn(rq) ==
  [rq EXCEPT !.res = sendContentFn(@, rq.gqlResponse), !.pc = "done"]

\* Express's own error handler, reached by next(error) and by a handler
\* that throws synchronously: status 500 and an error page.
expressErrorHandler(rq) ==
  [rq EXCEPT !.res = [@ EXCEPT !.statusCode = 500,
                               !.body = [error |-> "Internal Server Error"],
                               !.ended = @ + 1],
             !.pc = "done"]

\* (method === 'GET' && pQuery) || (method === 'POST' && data.query)
storeEligible(rq) ==
  \/ rq.method = "GET" /\ Truthy(isPersistedQuery(Data(rq)))
  \/ rq.method = "POST" /\ Truthy(rq.query)

\* extensions && extensions.cacheControl
hasCacheControl(gqlData) ==
  /\ "extensions" \in DOMAIN gqlData
  /\ "cacheControl" \in DOMAIN gqlData.extensions

\* reduceHints with the comparison turned round: the largest is kept.
RECURSIVE reduceHintsMax(_, _)
reduceHintsMax(hints, min) ==
  IF hints = <<>> THEN min
  ELSE reduceHintsMax(Tail(hints),
                      IF Head(hints).maxAge > min THEN Head(hints).maxAge ELSE min)

\* hints.reduce((min, p) => (p.maxAge < min ? p.maxAge : min), 60)
RECURSIVE reduceHints(_, _)
reduceHints(hints, min) ==
  IF hints = <<>> THEN min
  ELSE reduceHints(Tail(hints),
                   IF Head(hints).maxAge < min THEN Head(hints).maxAge ELSE min)

\* minAge seeded with the engine's defaultMaxAge (120) instead of 60.
minAgeFromDefaultMaxAge(gqlData) ==
  reduceHints(gqlData.extensions.cacheControl.hints, 120)

minAge(gqlData) == reduceHints(gqlData.extensions.cacheControl.hints, 60)

\* cacheValue that stores the response as the engine gave it, extensions
\* included.
cacheValueRaw(gqlData, t, duration) ==
  [type |-> "entry", payload |-> gqlData, at |-> t, duration |-> duration]

\* The stored value, JSON.stringify({payload, at, duration}); the
\* "functions" build names the payload member data.
cacheValue(gqlData, t, duration) ==
  [type |-> "entry", payload |-> removeExtensions(gqlData), at |-> t,
   duration |-> duration]

\* storeInCache that keys every response by the query text, also for a GET
\* with a descriptor.
storeInCacheQueryKey(rq, c, t) ==
  IF storeEligible(rq) /\ hasCacheControl(rq.gqlResponse)
  THEN LET minAgeInMs == minAge(rq.gqlResponse) * 1000
           key == Sha256Hex(StripWhitespace(TemplateText(rq.query)))
       IN [rq |-> [rq EXCEPT !.pc = "setWait"],
           cache |-> KeyValueCacheSet(
                       c, key, cacheValue(rq.gqlResponse, t, minAgeInMs), minAgeInMs, t)]
  ELSE [rq |-> graphqlResponseHandler(extensionsFilter(rq)), cache |-> c]

\* storeInCache without the check for extensions.cacheControl: a response
\* without hints is stored for the default 60 s.
storeInCacheUnconditional(rq, c, t) ==
  IF storeEligible(rq)
  THEN LET minAgeInMs ==
             (IF hasCacheControl(rq.gqlResponse) THEN minAge(rq.gqlResponse) ELSE 60)
             * 1000
           key == IF rq.method = "GET" THEN extractCacheKey(isPersistedQuery(Data(rq)))
                  ELSE hashPostBody(rq.query)
       IN [rq |-> [rq EXCEPT !.pc = "setWait"],
           cache |-> KeyValueCacheSet(
                       c, key, cacheValue(rq.gqlResponse, t, minAgeInMs), minAgeInMs, t)]
  ELSE [rq |-> graphqlResponseHandler(extensionsFilter(rq)), cache |-> c]

\* storeInCache of the "store" build up to its await: store.set runs
\* cache.set at once; next() runs in SetResolved.
storeInCache(rq, c, t) ==
  IF storeEligible(rq) /\ hasCacheControl(rq.gqlResponse)
  THEN LET minAgeInMs == minAge(rq.gqlResponse) * 1000
           key == IF rq.method = "GET" THEN extractCacheKey(isPersistedQuery(Data(rq)))
                  ELSE hashPostBody(rq.query)
       IN [rq |-> [rq EXCEPT !.pc = "setWait"],
           cache |-> KeyValueCacheSet(
                       c, key, cacheValue(rq.gqlResponse, t, minAgeInMs), minAgeInMs, t)]
  ELSE [rq |-> graphqlResponseHandler(extensionsFilter(rq)), cache |-> c]

\* ------------------------------------------------------ the "functions" build
gateKeyFn(rq) ==
  IF rq.method = "POST" THEN hashPostBodyFn(Data(rq))
  ELSE extractCacheKey(isPersistedQuery(Data(rq)))

\* getFromCacheIfAny of the "functions" build: synchronous, has() then get();
\* a throw of isPersistedQuery reaches Express's error handler.
getFromCacheIfAnyFn(rq, c, t) ==
  LET data == Data(rq)
      pQuery == isPersistedQuery(data)
  IN IF isPersistedQueryThrows(data)
     THEN expressErrorHandler([rq EXCEPT !.fault = "parse"])
     ELSE IF rq.method = "POST" /\ Truthy(data.query) /\ LruHas(c, gateKeyFn(rq), t)
     THEN [rq EXCEPT
             !.value = LruGet(c, gateKeyFn(rq), t),
             !.res = sendContentFn([@ EXCEPT !.xCache = "HIT"],
                                   LruGet(c, gateKeyFn(rq), t).payload),
             !.pc = "done", !.gate = "hit"]
     ELSE IF rq.method = "GET" /\ Truthy(pQuery) /\ LruHas(c, gateKeyFn(rq), t)
     THEN LET hit == LruGet(c, gateKeyFn(rq), t)
          IN [rq EXCEPT
                !.value = hit,
                !.res = sendContentFn(
                   [@ EXCEPT !.xCache = "HIT",
                             !.cacheControl = CacheControlHeader(
                                durationLeft(hit.duration, hit.at, t))],
                   hit.payload),
                !.pc = "done", !.gate = "hit"]
     ELSE IF rq.method = "GET" /\ Truthy(pQuery) /\ ~Truthy(data.query)
     THEN [rq EXCEPT !.res = [@ EXCEPT !.statusCode = 200,
                                       !.body = PersistedQueryNotFound,
                                       !.ended = @ + 1],
                     !.pc = "done", !.gate = "notfound"]
     ELSE graphqlHandler([rq EXCEPT !.gate = "pass"])

\* storeInCache of the "functions" build: synchronous; the entry records
\* duration minAge * 1000 and is set with maxAge 1000 when minAge is 0.
storeInCacheFn(rq, c, t) ==
  IF storeEligible(rq) /\ hasCacheControl(rq.gqlResponse)
  THEN LET age == minAge(rq.gqlResponse)
           maxAge == IF age = 0 THEN 1 * 1000 ELSE age * 1000
           stored == [rq EXCEPT !.res = [@ EXCEPT !.xCache = "MISS"]]
       IN [rq |-> graphqlResponseHandlerFn(extensionsFilter(stored)),
           cache |-> LruSet(c, gateKeyFn(rq),
                            cacheValue(rq.gqlResponse, t, age * 1000), maxAge, t)]
  ELSE [rq |-> graphqlResponseHandlerFn(extensionsFilter(rq)), cache |-> c]

\* ------------------------------------------------------------------ the engine
\* What runHttpQuery resolves with for request r: a body with no extensions,
\* with extensions that hold no cacheControl, or with cacheControl hints.
Hint(n) == [maxAge |-> n]
HintLists == { <<>>, <<Hint(0)>>, <<Hint(60)>>, <<Hint(65)>>, <<Hint(65), Hint(1)>> }
EngineResponses(r) ==
  { [data |-> r], [data |-> r, extensions |-> [tracing |-> 1]] }
  \cup { [data |-> r,
          extensions |-> [tracing |-> 1, cacheControl |-> [hints |-> h]]] :
         h \in HintLists }

\* What runHttpQuery rejects with: an HttpQueryError without or with
\* headers, or another error.
EngineErrors ==
  { [name |-> "HttpQueryError", statusCode |-> 400, message |-> "Bad Request",
     headers |-> {}],
    [name |-> "HttpQueryError", statusCode |-> 405, message |-> "Method Not Allowed",
     headers |-> {"Allow"}],
    [name |-> "Error", statusCode |-> 0, message |-> "resolver failed",
     headers |-> {}] }

\* graphqlRejected without res.statusCode = error.statusCode.
graphqlRejectedStatusKept(rq, error) ==
  IF error.name # "HttpQueryError" THEN expressErrorHandler(rq)
  ELSE [rq EXCEPT !.res = [@ EXCEPT !.headers = @ \cup error.headers,
                                    !.body = [error |-> error.message],
                                    !.ended = @ + 1],
                  !.pc = "done"]

\* The rejection callback of graphqlHandler (lines 226-239).
graphqlRejected(rq, error) ==
  IF error.name # "HttpQueryError" THEN expressErrorHandler(rq)
  ELSE [rq EXCEPT !.res = [@ EXCEPT !.headers = @ \cup error.headers,
                                    !.statusCode = error.statusCode,
                                    !.body = [error |-> error.message],
                                    !.ended = @ + 1],
                  !.pc = "done"]

\* What the engine answered, kept for the record: the hints of a response
\* that carries cacheControl, "plain" for one that does not.
Outcome(gqlResponse) ==
  IF hasCacheControl(gqlResponse)
  THEN [type |-> "hints", hints |-> gqlResponse.extensions.cacheControl.hints]
  ELSE [type |-> "plain"]

\* -------------------------------------------------------------------- actions
Init ==
  /\ build \in Builds
  /\ now = 0
  /\ ticks = 0
  /\ cache = [k \in {} |-> JsUndefined]
  /\ reqs = [r \in Req |-> IdleRequest]

Finished(rq) == rq.pc \in {"done", "hung"}

\* A request arrives (requests are numbered in the order they arrive) and
\* runs through getFromCacheIfAny up to its first await, or to its end.
Request(r, in) ==
  /\ reqs[r].pc = "idle"
  /\ \A s \in Req : s < r => reqs[s].pc # "idle"
  /\ LET rq == [reqs[r] EXCEPT !.method = in.method, !.query = in.query,
                               !.extensions = in.extensions,
                               !.variables = in.variables,
                               !.arrived = now,
                               !.prior = {s \in Req : Finished(reqs[s])}]
         o == IF build = "store" THEN getFromCacheIfAny(rq, cache, now)
              ELSE [rq |-> getFromCacheIfAnyFn(rq, cache, now), cache |-> cache]
     IN /\ reqs' = [reqs EXCEPT ![r] = o.rq]
        /\ cache' = o.cache
  /\ UNCHANGED <<build, now, ticks>>

\* The promise of store.get resolves: the rest of getFromCacheIfAny.
GetResolved(r) ==
  /\ reqs[r].pc = "gateGet"
  /\ reqs' = [reqs EXCEPT ![r] = gateResume(reqs[r], now)]
  /\ UNCHANGED <<build, now, ticks, cache>>

\* runHttpQuery resolves: res.gqlResponse = gqlResponse, next() into
\* storeInCache and, unless it awaits store.set, on to the response.
EngineResolved(r, gqlResponse) ==
  /\ reqs[r].pc = "engine"
  /\ LET rq == [reqs[r] EXCEPT !.gqlResponse = gqlResponse, !.out = Outcome(gqlResponse)]
         o == IF build = "store" THEN storeInCache(rq, cache, now)
              ELSE storeInCacheFn(rq, cache, now)
     IN /\ reqs' = [reqs EXCEPT ![r] = o.rq]
        /\ cache' = o.cache
  /\ UNCHANGED <<build, now, ticks>>

\* runHttpQuery rejects.
EngineRejected(r, error) ==
  /\ reqs[r].pc = "engine"
  /\ reqs' = [reqs EXCEPT ![r] = graphqlRejected([@ EXCEPT !.out = [type |-> "error"]], error)]
  /\ UNCHANGED <<build, now, ticks, cache>>

\* The promise of store.set resolves: next() into extensionsFilter and
\* graphqlResponseHandler.
SetResolved(r) ==
  /\ reqs[r].pc = "setWait"
  /\ reqs' = [reqs EXCEPT ![r] = graphqlResponseHandler(extensionsFilter(@))]
  /\ UNCHANGED <<build, now, ticks, cache>>

\* Time passes.
Tick(d) ==
  /\ ticks < MaxTicks
  /\ now' = now + d
  /\ ticks' = ticks + 1
  /\ UNCHANGED <<build, cache, reqs>>

Next ==
  \/ \E r \in Req : \E in \in RequestInputs : Request(r, in)
  \/ \E r \in Req : GetResolved(r)
  \/ \E r \in Req : \E g \in EngineResponses(r) : EngineResolved(r, g)
  \/ \E r \in Req : \E error \in EngineErrors : EngineRejected(r, error)
  \/ \E r \in Req : SetResolved(r)
  \/ \E d \in TickSteps : Tick(d)

Spec == Init /\ [][Next]_vars

\* --------------------------------------------------- a store that can fail
\* getFromCacheIfAny and storeInCache take any KeyValueCache; the promise of
\* a store with a backend can reject.  Neither await is inside a try, so
\* the rejection rejects the promise of the async middleware, which
\* Express 4 ignores: next() is never called and nothing is written.
GetRejected(r) ==
  /\ build = "store"
  /\ reqs[r].pc = "gateGet"
  /\ reqs' = [reqs EXCEPT ![r] = [@ EXCEPT !.pc = "hung", !.fault = "get",
                                           !.value = JsUndefined]]
  /\ UNCHANGED <<build, now, ticks, cache>>

SetRejected(r) ==
  /\ build = "store"
  /\ reqs[r].pc = "setWait"
  /\ reqs' = [reqs EXCEPT ![r] = [@ EXCEPT !.pc = "hung", !.fault = "set"]]
  /\ UNCHANGED <<build, now, ticks, cache>>

NextStoreFaults ==
  \/ Next
  \/ \E r \in Req : GetRejected(r)
  \/ \E r \in Req : SetRejected(r)

SpecStoreFaults == Init /\ [][NextStoreFaults]_vars

\* ------------------------------------------------------------ claim helpers
\* The key a request is looked up and stored under in the running build.
KeyOf(rq) == IF build = "store" THEN gateKey(rq) ELSE gateKeyFn(rq)

\* getFromCacheIfAny has looked the request up and decided.
PastGate(rq) == rq.pc \notin {"idle", "gateGet"}

\* The request has been answered by the pipeline (not by an error path).
Answered(rq) == rq.pc = "done" /\ rq.fault = "none"

SameInput(a, b) ==
  /\ a.method = b.method /\ a.query = b.query
  /\ a.extensions = b.extensions /\ a.variables = b.variables

\* r2 arrives after r1 has finished, and no other request is handled
\* between the arrival of r1 and the arrival of r2.
Sequential(r1, r2) ==
  /\ r1 \in reqs[r2].prior
  /\ \A r3 \in Req \ {r1, r2} :
       reqs[r3].pc = "idle" \/ r3 \in reqs[r1].prior \/ r3 > r2

\* r was answered by the engine with hints, all of them non-zero.
NonZeroHints(rq) ==
  /\ rq.out.type = "hints"
  /\ rq.out.hints # <<>>
  /\ \A i \in 1..Len(rq.out.hints) : rq.out.hints[i].maxAge > 0

\* The entries of the store that hold the response of request r.
EntriesOf(r) == {k \in DOMAIN cache : cache[k].value.payload.data = r}

PostWithQuery(rq) == rq.method = "POST" /\ Truthy(rq.query)

\* ------------------------------------------------------------------------ C1
\* C1: the engine is invoked only for a request that getFromCacheIfAny
\* passed through; a request answered with a cache hit or with
\* PersistedQueryNotFound never reaches the engine nor any later stage (no
\* engine response, no store write, no second write of the body).
C1_EngineOnlyAfterPassThrough ==
  \A r \in Req :
    LET rq == reqs[r] IN
    /\ rq.engine > 0 => rq.gate = "pass"
    /\ (rq.res.xCache = "HIT" \/ rq.res.body = PersistedQueryNotFound) =>
         /\ rq.engine = 0
         /\ rq.pc = "done"
         /\ rq.gqlResponse = JsUndefined
         /\ rq.out = JsUndefined
         /\ rq.res.ended = 1
         /\ EntriesOf(r) = {}

\* A cache hit was served after an earlier request went through the engine.
C1_Witness ==
  \E r1, r2 \in Req :
    /\ reqs[r1].engine = 1 /\ reqs[r1].gate = "pass"
    /\ reqs[r2].res.xCache = "HIT" /\ reqs[r2].engine = 0 /\ reqs[r2].pc = "done"

\* ------------------------------------------------------------------------ C2
\* C2: of two sequential identical POST requests with a non-empty query, when
\* the engine answered the first with non-zero hints, the first response is
\* in the store, and the second, if it arrives before that entry expires,
\* is answered from the store with X-Cache: HIT without the engine.
C2_SecondPostIsHit ==
  \A r1, r2 \in Req :
    LET a == reqs[r1]
        b == reqs[r2]
        k == KeyOf(a)
    IN PostWithQuery(a) /\ Answered(a) /\ NonZeroHints(a) =>
       \* until another request arrives, the first response is in the store
       /\ (\A r3 \in Req \ {r1} : reqs[r3].pc = "idle" \/ r3 \in a.prior) =>
            k \in EntriesOf(r1) /\ cache[k].maxAge > 0
       \* the second request, arriving while that entry is live, is a hit
       /\ (/\ Sequential(r1, r2) /\ SameInput(a, b)
           /\ k \in EntriesOf(r1)
           /\ b.arrived - cache[k].value.at <= cache[k].maxAge) =>
            /\ b.engine = 0
            /\ b.pc \in {"gateGet", "done"}
            /\ b.pc = "done" => b.res.xCache = "HIT" /\ b.res.body = [data |-> r1]

\* The second of two identical POSTs was answered from the store.
C2_Witness ==
  \E r1, r2 \in Req :
    /\ Sequential(r1, r2) /\ SameInput(reqs[r1], reqs[r2])
    /\ PostWithQuery(reqs[r1]) /\ NonZeroHints(reqs[r1]) /\ reqs[r1].engine = 1
    /\ reqs[r2].arrived > reqs[r1].arrived
    /\ reqs[r2].pc = "done" /\ reqs[r2].res.xCache = "HIT" /\ reqs[r2].engine = 0

\* ------------------------------------------------------------------------ C3
\* C3: every entry is set with a maxAge equal to the duration it records,
\* and no lookup returns an entry later than that duration after it was
\* written, whatever the hints (maxAge 0 included).
C3_TtlIsDurationAndHonoured ==
  /\ \A k \in DOMAIN cache : cache[k].maxAge = cache[k].value.duration
  /\ \A r \in Req :
       reqs[r].value.type # "undefined" =>
         reqs[r].arrived - reqs[r].value.at <= reqs[r].value.duration

\* ------------------------------------------------------------------------ C4
\* C4: every entry in the store records a duration of at least 1000 ms; a
\* minimum hint of 0 is recorded as 1000.
C4_DurationAtLeastFloor ==
  \A k \in DOMAIN cache : cache[k].value.duration >= 1000

\* ------------------------------------------------------------------------ C5
\* The first request of scenario B: a POST with a query that the engine
\* answered with the single hint maxAge 65.
ScenarioBFirst(rq) ==
  PostWithQuery(rq) /\ Answered(rq) /\ rq.out = [type |-> "hints", hints |-> <<Hint(65)>>]

\* C5 as claimed: the response is stored with duration 65000, and an
\* identical POST within 65 s of the first is a hit.
C5_StoredFor65Seconds ==
  \A r1, r2 \in Req :
    LET a == reqs[r1]
        b == reqs[r2]
        k == KeyOf(a)
    IN ScenarioBFirst(a) =>
       /\ (\A r3 \in Req \ {r1} : reqs[r3].pc = "idle" \/ r3 \in a.prior) =>
            k \in EntriesOf(r1) /\ cache[k].value.duration = 65000
       /\ (/\ Sequential(r1, r2) /\ SameInput(a, b)
           /\ b.arrived - a.arrived <= 65000
           /\ b.pc = "done") =>
            b.engine = 0 /\ b.res.xCache = "HIT"

\* C5 amended: the response is stored with duration 60000 (the hint is
\* capped at 60), and an identical POST that arrives within 60 s of the
\* write is a hit served with the first response.
C5_StoredFor60Seconds ==
  \A r1, r2 \in Req :
    LET a == reqs[r1]
        b == reqs[r2]
        k == KeyOf(a)
    IN ScenarioBFirst(a) =>
       /\ (\A r3 \in Req \ {r1} : reqs[r3].pc = "idle" \/ r3 \in a.prior) =>
            /\ k \in EntriesOf(r1)
            /\ cache[k].value.duration = 60000
            /\ cache[k].maxAge = 60000
       /\ (/\ Sequential(r1, r2) /\ SameInput(a, b)
           /\ k \in EntriesOf(r1)
           /\ b.arrived - cache[k].value.at <= 60000) =>
            /\ b.engine = 0
            /\ b.pc \in {"gateGet", "done"}
            /\ b.pc = "done" => b.res.xCache = "HIT" /\ b.res.body = [data |-> r1]

\* Scenario B ran: the second POST arrived 60 s after the first and was a hit.
C5_Witness ==
  \E r1, r2 \in Req :
    /\ ScenarioBFirst(reqs[r1])
    /\ Sequential(r1, r2) /\ SameInput(reqs[r1], reqs[r2])
    /\ reqs[r2].arrived = reqs[r1].arrived + 60000
    /\ reqs[r2].pc = "done" /\ reqs[r2].res.xCache = "HIT" /\ reqs[r2].engine = 0

\* ------------------------------------------------------------------------ C6
\* C6: a response without extensions.cacheControl is never written to the
\* store (every stored payload is the response of a request the engine
\* answered with cacheControl), and a POST that only identical POSTs
\* answered without cacheControl came before misses and invokes the engine.
C6_NoHintsNoStore ==
  /\ \A k \in DOMAIN cache :
       reqs[cache[k].value.payload.data].out.type = "hints"
  /\ \A r2 \in Req :
       LET b == reqs[r2] IN
       (/\ PostWithQuery(b) /\ PastGate(b) /\ b.fault = "none"
        /\ \A r1 \in Req \ {r2} :
             \/ reqs[r1].pc = "idle"
             \/ SameInput(reqs[r1], b) /\ reqs[r1].out.type # "hints")
       => b.gate = "pass" /\ b.engine = 1 /\ b.res.xCache # "HIT"

\* Scenario A ran: two sequential identical POSTs, both answered by the
\* engine without cacheControl, and nothing was stored.
C6_Witness ==
  \E r1, r2 \in Req :
    /\ Sequential(r1, r2) /\ SameInput(reqs[r1], reqs[r2])
    /\ PostWithQuery(reqs[r1])
    /\ reqs[r1].out = [type |-> "plain"] /\ reqs[r2].out = [type |-> "plain"]
    /\ reqs[r1].engine = 1 /\ reqs[r2].engine = 1
    /\ reqs[r2].pc = "done" /\ reqs[r2].res.xCache = "MISS"
    /\ DOMAIN cache = {}

\* ------------------------------------------------------------------------ C7
\* extensions carries a persistedQuery with both version and sha256Hash.
ValidDescriptor(ext) ==
  /\ ext.type = "string" /\ ext.json
  /\ ext.persistedQuery.type = "object"
  /\ ext.persistedQuery.version.type = "string"
  /\ ext.persistedQuery.sha256Hash.type = "string"

\* A GET with a valid descriptor and no query whose lookup found nothing.
DescriptorOnlyMiss(rq) ==
  /\ rq.method = "GET" /\ ValidDescriptor(rq.extensions) /\ ~Truthy(rq.query)
  /\ rq.value.type = "undefined"

\* What store.get returns for every key is the same before and after a step.
StoreLooksUnchanged ==
  \A k \in DOMAIN cache \cup DOMAIN cache' :
    LruGet(cache', k, now) = LruGet(cache, k, now)

\* C7, the answer: such a request is answered with the
\* PersistedQueryNotFound body and status 200, once, without the engine and
\* without writing its own entry.
C7_NotFoundAnswer ==
  \A r \in Req :
    LET rq == reqs[r] IN
    DescriptorOnlyMiss(rq) /\ PastGate(rq) =>
      /\ rq.pc = "done"
      /\ rq.res.body = PersistedQueryNotFound
      /\ rq.res.statusCode = 200
      /\ rq.res.ended = 1
      /\ rq.engine = 0
      /\ EntriesOf(r) = {}

\* C7, the store: no step of getFromCacheIfAny for such a request changes
\* what the store returns for any key.
C7_NotFoundLeavesStore ==
  \A r \in Req :
    (/\ reqs[r].pc \in {"idle", "gateGet"}
     /\ reqs'[r] # reqs[r]
     /\ DescriptorOnlyMiss(reqs'[r]))
    => StoreLooksUnchanged

\* C7: a GET with a valid descriptor, no query and no live entry is answered
\* PersistedQueryNotFound with status 200; the engine is not invoked and the
\* contents of the store are as before.
C7_PersistedQueryNotFound ==
  [](C7_NotFoundAnswer) /\ [][C7_NotFoundLeavesStore]_vars

\* Scenario C ran, against a store that held an expired entry for the
\* descriptor.
C7_Witness ==
  \E r1, r2 \in Req :
    /\ reqs[r1].method = "GET" /\ reqs[r1].extensions = ExtValid
    /\ reqs[r1].out.type = "hints"
    /\ Sequential(r1, r2)
    /\ DescriptorOnlyMiss(reqs[r2]) /\ reqs[r2].pc = "done"
    /\ reqs[r2].res.body = PersistedQueryNotFound /\ reqs[r2].engine = 0

\* ------------------------------------------------------------------------ C8
\* The first request of scenario D: a GET with a valid descriptor and a
\* query that the engine answered with the single hint maxAge 60.
ScenarioDFirst(rq) ==
  /\ rq.method = "GET" /\ ValidDescriptor(rq.extensions) /\ Truthy(rq.query)
  /\ Answered(rq)
  /\ rq.out = [type |-> "hints", hints |-> <<Hint(60)>>]

\* C8: a GET with a descriptor and a query that misses goes to the engine;
\* answered with hint maxAge 60 it is stored under the descriptor key, and a
\* following GET with only that descriptor, arriving within 60 s of the
\* write, is a hit with Cache-Control: public, max-age <= 60.
C8_DescriptorWithQueryThenHit ==
  \A r1, r2 \in Req :
    LET a == reqs[r1]
        b == reqs[r2]
        k == extractCacheKey(a.extensions.persistedQuery)
    IN /\ (/\ a.method = "GET" /\ ValidDescriptor(a.extensions) /\ Truthy(a.query)
           /\ PastGate(a) /\ a.value.type = "undefined") =>
            /\ a.gate = "pass" /\ a.engine = 1
            /\ a.res.body # PersistedQueryNotFound
       /\ ScenarioDFirst(a) =>
            /\ (\A r3 \in Req \ {r1} : reqs[r3].pc = "idle" \/ r3 \in a.prior) =>
                 k \in EntriesOf(r1) /\ cache[k].value.duration = 60000
            /\ (/\ Sequential(r1, r2)
                /\ b.method = "GET" /\ b.extensions = a.extensions /\ ~Truthy(b.query)
                /\ k \in EntriesOf(r1)
                /\ b.arrived - cache[k].value.at <= 60000) =>
                 /\ b.engine = 0
                 /\ b.pc \in {"gateGet", "done"}
                 /\ b.pc = "done" =>
                      /\ b.res.xCache = "HIT"
                      /\ b.res.body = [data |-> r1]
                      /\ b.res.cacheControl.type = "public"
                      /\ b.res.cacheControl.maxAge <= 60

\* Scenario D ran: the descriptor-only GET arrived 60 s after the first
\* request and was a hit.
C8_Witness ==
  \E r1, r2 \in Req :
    /\ ScenarioDFirst(reqs[r1]) /\ Sequential(r1, r2)
    /\ reqs[r2].method = "GET" /\ reqs[r2].extensions = reqs[r1].extensions
    /\ ~Truthy(reqs[r2].query)
    /\ reqs[r2].arrived = reqs[r1].arrived + 60000
    /\ reqs[r2].pc = "done" /\ reqs[r2].res.xCache = "HIT"
    /\ reqs[r2].res.cacheControl.type = "public"

\* ------------------------------------------------------------------------ C9
\* C9: a request whose store.get or store.set failed is still answered, with
\* the engine's response and no error: once no handler of it is left to
\* run, its response has been written with status 200.
C9_FailOpen ==
  \A r \in Req :
    LET rq == reqs[r] IN
    rq.fault \in {"get", "set"} /\ rq.pc \in {"hung", "done"} =>
      /\ rq.pc = "done"
      /\ rq.res.ended = 1
      /\ rq.res.statusCode = 200
      /\ rq.engine = 1

\* ----------------------------------------------------------------------- C10
\* extensions is a text that is not JSON, or its persistedQuery lacks
\* version or sha256Hash.
MalformedDescriptor(ext) ==
  /\ ext.type = "string"
  /\ \/ ~ext.json
     \/ /\ ext.persistedQuery.type = "object"
        /\ \/ ext.persistedQuery.version.type = "undefined"
           \/ ext.persistedQuery.sha256Hash.type = "undefined"

\* C10: a request with malformed persisted-query metadata is handled like
\* one without a descriptor: no error reaches the client and none is left
\* unanswered, a GET is not looked up and not answered not-found but passed
\* through, and no key built from the malformed descriptor is in the store.
C10_MalformedAsAbsent ==
  \A r \in Req :
    LET rq == reqs[r] IN
    rq.pc # "idle" /\ MalformedDescriptor(rq.extensions) =>
      /\ rq.fault = "none"
      /\ rq.pc # "hung"
      /\ rq.res.statusCode # 500
      /\ rq.method = "GET" => rq.pc # "gateGet" /\ rq.gate = "pass"
      /\ rq.extensions.json =>
           extractCacheKey(rq.extensions.persistedQuery) \notin DOMAIN cache

\* ----------------------------------------------------------------------- C11
\* A request with a truthy persistedQuery sent by GET.
GetWithDescriptor(rq) == rq.method = "GET" /\ Truthy(isPersistedQuery(Data(rq)))

\* R is x / 1000 rounded to the nearest integer, a half rounded up.
IsRounded(R, x) == x - 500 < 1000 * R /\ 1000 * R <= x + 500

\* C11, the hit: in the step in which a GET with a descriptor is answered
\* from the store, the response gets X-Cache: HIT, the stored payload, and
\* Cache-Control: public, max-age=R, s-maxage=R with
\* R = round(duration / 1000 - (now - at) / 1000) of the entry that the
\* lookup returned.
C11_HitSetsCacheControl ==
  \A r \in Req :
    (reqs[r].gate # "hit" /\ reqs'[r].gate = "hit" /\ reqs'[r].method = "GET") =>
      LET e == reqs'[r].value
          res == reqs'[r].res
      IN /\ e.type = "entry"
         /\ res.xCache = "HIT"
         /\ res.body = e.payload
         /\ res.cacheControl.type = "public"
         /\ res.cacheControl.maxAge = res.cacheControl.sMaxAge
         /\ IsRounded(res.cacheControl.maxAge, e.duration - (now - e.at))

\* C11, the other responses: Cache-Control is on the response of no request
\* but a GET with a descriptor answered from the store (not on a POST hit,
\* a miss, a PersistedQueryNotFound answer or an error).
C11_NoOtherCacheControl ==
  \A r \in Req :
    LET rq == reqs[r] IN
    /\ rq.res.cacheControl # JsUndefined =>
         rq.gate = "hit" /\ GetWithDescriptor(rq) /\ rq.res.xCache = "HIT"
    /\ (rq.gate = "hit" /\ rq.method = "POST") =>
         rq.res.xCache = "HIT" /\ rq.res.cacheControl = JsUndefined

\* C11: a GET-with-descriptor hit carries X-Cache: HIT and Cache-Control:
\* public, max-age=R, s-maxage=R with R the rounded remaining lifetime of
\* the stored entry, and no other response carries Cache-Control.
C11_CacheControlOnGetHitOnly ==
  [](C11_NoOtherCacheControl) /\ [][C11_HitSetsCacheControl]_vars

\* A GET hit 500 ms after the write of a 60 s entry advertises 60 (59.5
\* rounded up), next to a POST hit that carries no Cache-Control.
C11_Witness ==
  \E r \in Req :
    /\ reqs[r].pc = "done" /\ reqs[r].gate = "hit" /\ GetWithDescriptor(reqs[r])
    /\ reqs[r].value.duration = 60000
    /\ reqs[r].arrived - reqs[r].value.at = 500
    /\ reqs[r].res.cacheControl = CacheControlHeader(60)

\* ----------------------------------------------------------------------- C12
\* C12: the payload of every entry is the engine's response to the request
\* it was stored for, without the extensions member, and is the body that
\* request's client received; the body of every hit is the payload the
\* lookup returned, hence the body the client of the original miss received;
\* an entry is returned by a lookup made at the time it was written.
C12_RoundTrip ==
  /\ \A k \in DOMAIN cache :
       LET e == cache[k].value
           a == reqs[e.payload.data]
       IN /\ "extensions" \notin DOMAIN e.payload
          /\ a.gate = "pass" /\ a.out.type = "hints"
          /\ a.pc = "setWait" =>
               /\ DOMAIN e.payload = DOMAIN a.gqlResponse \ {"extensions"}
               /\ \A f \in DOMAIN e.payload : e.payload[f] = a.gqlResponse[f]
          /\ a.pc = "done" => a.res.body = e.payload /\ a.res.xCache # "HIT"
          /\ e.at = now => LruGet(cache, k, now) = e
  /\ \A r \in Req :
       LET b == reqs[r] IN
       b.gate = "hit" =>
         /\ b.pc = "done" /\ b.res.body = b.value.payload
         /\ "extensions" \notin DOMAIN b.res.body
         /\ reqs[b.res.body.data].pc = "done" =>
              b.res.body = reqs[b.res.body.data].res.body

\* A request was answered from the store with the body an earlier request,
\* answered by the engine with extensions, had received.
C12_Witness ==
  \E r1, r2 \in Req :
    /\ r1 # r2
    /\ reqs[r1].pc = "done" /\ reqs[r1].out.type = "hints" /\ reqs[r1].res.xCache # "HIT"
    /\ reqs[r2].pc = "done" /\ reqs[r2].gate = "hit"
    /\ reqs[r2].res.body = [data |-> r1]
    /\ reqs[r2].res.body = reqs[r1].res.body

\* ----------------------------------------------------------------------- C13
\* The text without its whitespace characters: what is left of s, in order.
RECURSIVE WithoutWhitespace(_)
WithoutWhitespace(s) ==
  IF s = <<>> THEN <<>>
  ELSE IF Head(s) \in Whitespace THEN WithoutWhitespace(Tail(s))
  ELSE <<Head(s)>> \o WithoutWhitespace(Tail(s))

\* C13: the key of a POST with a query is the SHA-256 hex digest of the
\* query text with every whitespace character removed, so two POSTs whose
\* texts differ only in whitespace have the same key, and the second is
\* answered with the response stored for the first.
C13_FingerprintOfStrippedText ==
  \A r1, r2 \in Req :
    LET a == reqs[r1]
        b == reqs[r2]
    IN (PostWithQuery(a) /\ PostWithQuery(b) /\ a.fault = "none" /\ b.fault = "none") =>
       /\ KeyOf(a) = Sha256Hex(WithoutWhitespace(a.query.chars))
       /\ WithoutWhitespace(a.query.chars) = WithoutWhitespace(b.query.chars) =>
            /\ KeyOf(a) = KeyOf(b)
            /\ (/\ Sequential(r1, r2) /\ NonZeroHints(a) /\ Answered(a)
                /\ b.arrived = a.arrived /\ b.pc = "done") =>
                 b.res.xCache = "HIT" /\ b.res.body = [data |-> r1]

\* ----------------------------------------------------------------------- C14
\* The engine failed for the request.
EngineFailed(rq) == rq.out = [type |-> "error"]

\* C14, the answer: a request the engine failed for is answered once with
\* the status code, headers and message of an HttpQueryError (status 500
\* for any other error) and with no header of the cache layer, and no entry
\* holds a response for it; every entry holds the response of a request
\* that missed and that the engine then answered.
C14_ErrorAnswer ==
  /\ \A r \in Req :
       LET rq == reqs[r] IN
       EngineFailed(rq) =>
         /\ rq.pc = "done" /\ rq.res.ended = 1 /\ rq.gate = "pass"
         /\ rq.res.xCache = "none" /\ rq.res.cacheControl = JsUndefined
         /\ rq.gqlResponse = JsUndefined
         /\ EntriesOf(r) = {}
         /\ \E error \in EngineErrors :
              IF error.name = "HttpQueryError"
              THEN /\ rq.res.statusCode = error.statusCode
                   /\ rq.res.headers = error.headers
                   /\ rq.res.body = [error |-> error.message]
              ELSE rq.res.statusCode = 500 /\ rq.res.headers = {}
  /\ \A k \in DOMAIN cache :
       LET a == reqs[cache[k].value.payload.data] IN
       a.gate = "pass" /\ a.engine = 1 /\ a.out.type = "hints"

\* C14, the store: the step in which the engine fails leaves the store as
\* it was.
C14_ErrorLeavesStore ==
  \A r \in Req :
    (~EngineFailed(reqs[r]) /\ EngineFailed(reqs'[r])) => cache' = cache

\* C14: when the engine fails, the client receives the engine's error,
\* storeInCache does not run, and the store is unchanged; an entry is
\* created only after a miss and a successful execution.
C14_EngineErrorPropagates ==
  [](C14_ErrorAnswer) /\ [][C14_ErrorLeavesStore]_vars

\* The engine failed with its 405 for a request that arrived when the
\* store held an entry under the key of that request.
C14_Witness ==
  \E r \in Req :
    /\ EngineFailed(reqs[r]) /\ reqs[r].pc = "done"
    /\ reqs[r].res.statusCode = 405 /\ reqs[r].res.headers = {"Allow"}
    /\ storeEligible(reqs[r])
    /\ KeyOf(reqs[r]) \in DOMAIN cache

\* ----------------------------------------------------------------------- C15
\* 60 and the maxAge of every hint of the list.
AgesWithDefault(hints) == {60} \cup {hints[i].maxAge : i \in 1..Len(hints)}

\* C15: an entry that holds the response of a request answered with hints
\* records 1000 times minAge for a duration, where minAge is the least of 60
\* and the maxAge of every hint: at most 60, 60 for an empty list, the
\* smallest hint when one is below 60.
C15_MinAgeIsLeastOfHintsAnd60 ==
  \A r \in Req : \A k \in EntriesOf(r) :
    LET hints == reqs[r].out.hints
        d == cache[k].value.duration
    IN /\ reqs[r].out.type = "hints"
       /\ d \in {1000 * m : m \in AgesWithDefault(hints)}
       /\ \A m \in AgesWithDefault(hints) : d <= 1000 * m
       /\ d <= 60000
       /\ hints = <<>> => d = 60000

\* The response with hints 65 and 1 was stored for one second.
C15_Witness ==
  \E r \in Req : \E k \in EntriesOf(r) :
    /\ reqs[r].out = [type |-> "hints", hints |-> <<Hint(65), Hint(1)>>]
    /\ cache[k].value.duration = 1000

\* ----------------------------------------------------------------------- C16
\* Gate case 1, a POST with a non-empty query, and gate case 2, a GET with
\* a valid descriptor.
GateCase1(rq) == rq.method = "POST" /\ Truthy(rq.query)
GateCase2(rq) == rq.method = "GET" /\ ValidDescriptor(rq.extensions)

\* C16: every entry of the store was written for a request of gate case 1
\* or 2, under the key of that request, after the engine answered it (the
\* gate writes nothing); a request of any other shape is passed through to
\* the engine, is answered by no error of the cache layer, and no entry
\* holds a response for it.
C16_OnlyEligibleRequestsWrite ==
  /\ \A k \in DOMAIN cache :
       LET a == reqs[cache[k].value.payload.data] IN
       /\ GateCase1(a) \/ GateCase2(a)
       /\ k = KeyOf(a)
       /\ a.engine = 1 /\ a.out.type = "hints"
  /\ \A r \in Req :
       LET rq == reqs[r] IN
       (rq.pc # "idle" /\ ~GateCase1(rq) /\ ~GateCase2(rq)) =>
         /\ rq.gate = "pass" /\ rq.engine = 1
         /\ rq.fault = "none"
         /\ EntriesOf(r) = {}

\* ----------------------------------------------------------------------- C17
\* Request r calls store.set in this step.
SetsIn(r) ==
  /\ reqs[r].pc = "engine" /\ reqs'[r].pc # "engine"
  /\ reqs'[r].out.type = "hints" /\ storeEligible(reqs[r])

\* A whole entry: the payload of a response, the time of the write and a
\* duration.
CompleteEntry(e) ==
  /\ DOMAIN e = {"type", "payload", "at", "duration"}
  /\ e.type = "entry"
  /\ e.payload.data \in Req
  /\ e.at \in Nat /\ e.duration \in Nat

\* C17, the writes: after the step in which a request calls set, get
\* returns for its key the whole entry that call passed (its response, the
\* time of the call), whatever was stored before, and what get returns for
\* every other key is as before; in a step without a set, what get returns
\* for a key stays or becomes absent.
C17_LastWriteWins ==
  /\ \A r \in Req :
       SetsIn(r) =>
         LET e == LruGet(cache', KeyOf(reqs[r]), now) IN
         /\ CompleteEntry(e)
         /\ e.payload = [data |-> r] /\ e.at = now
         /\ \A k \in (DOMAIN cache \cup DOMAIN cache') \ {KeyOf(reqs[r])} :
              LruGet(cache', k, now) = LruGet(cache, k, now)
  /\ (\A r \in Req : ~SetsIn(r)) =>
       \A k \in DOMAIN cache \cup DOMAIN cache' :
         LruGet(cache', k, now') \in {LruGet(cache, k, now), JsUndefined}

\* C17, the reads: the value a lookup returns is absent or the whole entry
\* the store holds for the key at the time of the call.
C17_GetReturnsWholeEntry ==
  \A r \in Req :
    (reqs[r].pc = "idle" /\ reqs'[r].pc # "idle" /\ reqs'[r].value # JsUndefined) =>
      /\ CompleteEntry(reqs'[r].value)
      /\ reqs'[r].value = LruGet(cache, KeyOf(reqs'[r]), now)

\* C17, the hits: the body of a hit is the response, without extensions,
\* that the engine gave to an earlier request with the same key.
C17_HitIsEarlierResponse ==
  \A r \in Req :
    LET b == reqs[r] IN
    b.gate = "hit" =>
      /\ b.res.body = b.value.payload
      /\ DOMAIN b.res.body = {"data"}
      /\ b.res.body.data < r
      /\ reqs[b.res.body.data].out.type = "hints"
      /\ KeyOf(reqs[b.res.body.data]) = KeyOf(b)

\* C17: under every interleaving of the requests a get returns nothing or
\* the whole entry of the last set for the key, and every hit serves the
\* stored response of an earlier request with the same key.
C17_StoreIsLastWriteWins ==
  /\ [](C17_HitIsEarlierResponse)
  /\ [][C17_LastWriteWins /\ C17_GetReturnsWholeEntry]_vars

\* Two requests in flight at once missed on the same key and both wrote;
\* the store holds the response of the one that arrived first, which wrote
\* last.
C17_Witness ==
  \E r1, r2 \in Req :
    /\ r1 < r2 /\ r1 \notin reqs[r2].prior
    /\ storeEligible(reqs[r1]) /\ storeEligible(reqs[r2])
    /\ KeyOf(reqs[r1]) = KeyOf(reqs[r2])
    /\ reqs[r1].out.type = "hints" /\ reqs[r2].out.type = "hints"
    /\ reqs[r1].pc = "done" /\ reqs[r2].pc = "done"
    /\ KeyOf(reqs[r1]) \in DOMAIN cache
    /\ cache[KeyOf(reqs[r1])].value.payload = [data |-> r1]

\* ----------------------------------------------------------------------- C18
\* C18: the body of a response is never written and ended twice, and once
\* no handler of a request is left to run and no call of the request is
\* pending, its response has been written and ended exactly once.
C18_BodyWrittenExactlyOnce ==
  \A r \in Req :
    LET rq == reqs[r] IN
    /\ rq.res.ended <= 1
    /\ Finished(rq) => rq.res.ended = 1

\* ----------------------------------------------------------------------- C19
\* Two requests ask the engine for the same thing: the same method, the
\* same variables, and the same query text up to whitespace for a POST, the
\* same descriptor for a GET.
Equivalent(a, b) ==
  /\ a.method = b.method
  /\ a.variables = b.variables
  /\ IF a.method = "POST"
     THEN WithoutWhitespace(a.query.chars) = WithoutWhitespace(b.query.chars)
     ELSE isPersistedQuery(Data(a)) = isPersistedQuery(Data(b))

\* C19: the payload of every hit is the response the engine gave to a
\* request equivalent to the one that is answered; two POSTs with the same
\* query text and different variables never share an entry.
C19_HitIsForEquivalentRequest ==
  \A r \in Req :
    LET b == reqs[r] IN
    b.gate = "hit" =>
      /\ reqs[b.res.body.data].out.type = "hints"
      /\ Equivalent(reqs[b.res.body.data], b)

\* ----------------------------------------------------------------------- C20
\* C20: on every hit of a GET with a descriptor the advertised max-age and
\* s-maxage are one integer that is at least 0 and at most the duration of
\* the entry in seconds, which is at most 60.
C20_RemainingWithinDuration ==
  \A r \in Req :
    LET rq == reqs[r] IN
    (rq.gate = "hit" /\ rq.method = "GET") =>
      /\ rq.res.cacheControl.maxAge \in Int
      /\ rq.res.cacheControl.sMaxAge = rq.res.cacheControl.maxAge
      /\ 0 <= rq.res.cacheControl.maxAge
      /\ 1000 * rq.res.cacheControl.maxAge <= rq.value.duration
      /\ rq.value.duration <= 60000

====
